---- MODULE Spec2Model ----
(***************************************************************************)
(* Model of scraper.py (StreetEasy apartment finder): the listings table   *)
(* and its two queries, the criteria filter, the in-run deduplication, the *)
(* per-page extraction loop and the run (main).                            *)
(*                                                                         *)
(* Encoding of Python values:                                              *)
(*   None / missing dict key (listing.get(k))  ->  <<>>                    *)
(*   a present value v                          ->  <<v>>                   *)
(*   baths (float)                              ->  tenths, 15 = 1.5        *)
(*   timestamps (ISO-8601 UTC text)             ->  naturals, same order    *)
(***************************************************************************)
EXTENDS Integers, Sequences, FiniteSets, TLC

VARIABLES
    store,        \* rows of table listings in the database file DB_PATH
    clock,        \* latest value read from datetime.now(timezone.utc)
    firstSaved,   \* history: per id, time of the first save_listings holding it
    lastSaved,    \* history: per id, time of the latest save_listings holding it
    call,         \* the latest function call: operation, arguments, result
    pc,           \* per run of main: the statement it is at
    conn,         \* per run: the sqlite3 connection returned by init_db
    driver,       \* per run: the Chrome driver returned by get_driver
    url_i,        \* per run: how many of BASE_URLS have been scraped
    all_listings, \* per run: local all_listings
    filtered,     \* per run: local filtered
    new_listings, \* per run: local new_listings
    alerted,      \* per run: the argument of send_email_alert, once called
    raising,      \* per run: an exception is propagating out of the try block
    began_after   \* history: per run, the runs that had ended when it began

storeVars == <<store, clock, firstSaved, lastSaved>>
runVars == <<pc, conn, driver, url_i, all_listings, filtered, new_listings,
             alerted, raising, began_after>>
vars == <<store, clock, firstSaved, lastSaved, call, pc, conn, driver, url_i,
          all_listings, filtered, new_listings, alerted, raising, began_after>>

----------------------------------------------------------------------------
(* Bounds                                                                  *)

MaxBatch == 2      \* longest list handed to a store function
MaxTime == 1       \* largest clock reading
MaxAll == 3        \* longest all_listings handed to the deduplication
MaxElems == 2      \* most listing cards on one search page

----------------------------------------------------------------------------
(* Python values                                                           *)

None == <<>>
Some(v) == <<v>>
Val(o) == o[1]

\* truth value of an optional number: None and 0 are false
Truthy(o) == o # None /\ Val(o) # 0

\* Python "a or b" on optional numbers
PyOr(a, b) == IF Truthy(a) THEN a ELSE b

\* sqlite3 adapts a Python bool to INTEGER 0/1
BoolToInt(b) == IF b THEN 1 ELSE 0

----------------------------------------------------------------------------
(* Calls of one function on its own                                        *)

NoCall == [op |-> "none", state |-> "returned", arg |-> <<>>, now |-> 0,
           ret |-> <<>>]

\* a function has been called with arg and has not run yet
Called(op, arg) ==
    [op |-> op, state |-> "called", arg |-> arg, now |-> 0, ret |-> <<>>]

\* the function has returned ret
Returned(c, ret) == [c EXCEPT !.state = "returned", !.ret = ret]

Done(op) == call.op = op /\ call.state = "returned"

----------------------------------------------------------------------------
(* URLs and listing ids                                                    *)

\* A listing URL: the neighbourhood path segment, and the trailing numeric
\* path segment matched by /(\d+)(?:\?|$) when there is one.
URLS ==
    { [hood |-> "crown-heights",    kind |-> "rental",   tail |-> Some(1)],
      [hood |-> "prospect-heights", kind |-> "building", tail |-> Some(1)],
      [hood |-> "bed-stuy",         kind |-> "rental",   tail |-> None] }

\* hashlib.md5(url).hexdigest()[:12]: a digest, one per URL
Md5Hex12(url) == [digest_of |-> url]

generate_listing_id(url) ==
    IF url.tail # None
    THEN [prefix |-> "se_", num |-> url.tail, hex |-> None]
    ELSE [prefix |-> "se_", num |-> None, hex |-> Some(Md5Hex12(url))]

IDS == { generate_listing_id(u) : u \in URLS }

----------------------------------------------------------------------------
(* Listings (the dicts built by scrape_listings)                           *)

Neighborhood(url) ==
    IF url.hood = "crown-heights" THEN "Crown Heights"
    ELSE IF url.hood = "prospect-heights" THEN "Prospect Heights"
    ELSE "Brooklyn"

\* Two contents a listing card can show for the same URL.
CardA ==
    [address |-> Some("950 Franklin Ave"), price |-> Some(4000),
     net_price |-> Some(4000), beds |-> Some(2), baths |-> Some(10),
     sqft |-> None, has_laundry |-> FALSE, is_no_fee |-> TRUE,
     raw_text |-> "2 beds 1 bath $4,000 no fee"]

CardB ==
    [address |-> None, price |-> Some(4200),
     net_price |-> Some(3900), beds |-> Some(3), baths |-> Some(15),
     sqft |-> Some(900), has_laundry |-> TRUE, is_no_fee |-> FALSE,
     raw_text |-> "3 beds 1.5 baths $4,200 $3,900 net effective washer"]

Cards == {CardA, CardB}

MkListing(url, c) ==
    [id |-> generate_listing_id(url), url |-> url,
     address |-> c.address, neighborhood |-> Neighborhood(url),
     price |-> c.price, net_price |-> c.net_price,
     beds |-> c.beds, baths |-> c.baths, sqft |-> c.sqft,
     has_laundry |-> c.has_laundry, is_no_fee |-> c.is_no_fee,
     raw_text |-> c.raw_text]

StoreListings == { MkListing(u, c) : u \in URLS, c \in Cards }

SeqsUpTo(S, n) == UNION { [1..k -> S] : k \in 0..n }

Batches == SeqsUpTo(StoreListings, MaxBatch)

IdsOf(batch) == { batch[i].id : i \in DOMAIN batch }

----------------------------------------------------------------------------
(* Table listings                                                          *)

StoredIds(rows) == { r.id : r \in rows }

\* SELECT id FROM listings WHERE id = ? ; cursor.fetchone()
SelectId(rows, id) == { r \in rows : r.id = id }

\* slip: a listing already returned in this call is taken as seen
RECURSIVE get_new_listings_once(_, _)
get_new_listings_once(rows, listings) ==
    IF listings = <<>> THEN <<>>
    ELSE LET listing == Head(listings)
             rest == get_new_listings_once(rows \cup {listing}, Tail(listings))
         IN IF SelectId(rows, listing.id) = {}
            THEN <<listing>> \o rest
            ELSE rest

RECURSIVE get_new_listings(_, _)
get_new_listings(rows, listings) ==
    IF listings = <<>> THEN <<>>
    ELSE LET listing == Head(listings)
             rest == get_new_listings(rows, Tail(listings))
         IN IF SelectId(rows, listing.id) = {}
            THEN <<listing>> \o rest
            ELSE rest

\* the VALUES (...) of the INSERT; unit and building_name get no value
InsertRow(listing, now) ==
    [id |-> listing.id, first_seen |-> now, last_seen |-> now,
     address |-> listing.address, unit |-> None,
     neighborhood |-> Some(listing.neighborhood),
     price |-> listing.price, net_price |-> listing.net_price,
     beds |-> listing.beds, baths |-> listing.baths, sqft |-> listing.sqft,
     url |-> Some(listing.url),
     has_laundry |-> BoolToInt(listing.has_laundry),
     is_no_fee |-> BoolToInt(listing.is_no_fee),
     building_name |-> None, raw_data |-> listing.raw_text]

\* slip: the conflict clause also resets first_seen
OnConflictUpdate_resets_first_seen(row, listing, now) ==
    [row EXCEPT !.first_seen = now,
                !.last_seen = now,
                !.price = listing.price,
                !.net_price = listing.net_price]

\* slip: the conflict clause also rewrites the descriptive columns
OnConflictUpdate_rewrites_row(row, listing, now) ==
    [row EXCEPT !.last_seen = now,
                !.price = listing.price,
                !.net_price = listing.net_price,
                !.address = listing.address,
                !.url = Some(listing.url)]

\* ON CONFLICT(id) DO UPDATE SET last_seen = ?, price = ?, net_price = ?
OnConflictUpdate(row, listing, now) ==
    [row EXCEPT !.last_seen = now,
                !.price = listing.price,
                !.net_price = listing.net_price]

\* slip: id is not the primary key, every statement inserts
Upsert_no_key(rows, listing, now) ==
    rows \cup {InsertRow(listing, now)}

\* one INSERT ... ON CONFLICT statement against PRIMARY KEY id
Upsert(rows, listing, now) ==
    IF \E r \in rows : r.id = listing.id
    THEN { IF r.id = listing.id THEN OnConflictUpdate(r, listing, now) ELSE r
           : r \in rows }
    ELSE rows \cup {InsertRow(listing, now)}

\* slip: conn.commit() is missing, conn.close() rolls the statements back
save_listings_no_commit(rows, listings, now) == rows

RECURSIVE save_listings(_, _, _)
save_listings(rows, listings, now) ==
    IF listings = <<>> THEN rows
    ELSE save_listings(Upsert(rows, Head(listings), now), Tail(listings), now)

----------------------------------------------------------------------------
(* Field parsers. A text is a sequence of one-character strings.           *)

Digits == {"0", "1", "2", "3", "4", "5", "6", "7", "8", "9"}

DigitVal(c) ==
    CASE c = "0" -> 0 [] c = "1" -> 1 [] c = "2" -> 2 [] c = "3" -> 3
      [] c = "4" -> 4 [] c = "5" -> 5 [] c = "6" -> 6 [] c = "7" -> 7
      [] c = "8" -> 8 [] c = "9" -> 9

\* str.replace(',', '')
StripCommas(t) == SelectSeq(t, LAMBDA c : c # ",")

\* int() of a text of digits; 0 for the empty text, which callers rule out
RECURSIVE IntOf(_)
IntOf(t) ==
    IF t = <<>> THEN 0
    ELSE 10 * IntOf(SubSeq(t, 1, Len(t) - 1)) + DigitVal(t[Len(t)])

\* the longest run of digits of t that starts at position i
RECURSIVE DigitRun(_, _)
DigitRun(t, i) ==
    IF i > Len(t) \/ t[i] \notin Digits THEN <<>>
    ELSE <<t[i]>> \o DigitRun(t, i + 1)

\* re.search(r'[\$]?([\d,]+)', t) on a text without commas: group 1 is the
\* run of digits at the first digit of t
parse_price(price_str) ==
    IF price_str = <<>> THEN None
    ELSE LET t == StripCommas(price_str)
             at == { i \in DOMAIN t : t[i] \in Digits }
         IN IF at = {} THEN None
            ELSE LET first == CHOOSE i \in at : \A j \in at : i <= j
                 IN Some(IntOf(DigitRun(t, first)))

\* float() of a text matched by [\d.]+ : digits with at most one point and
\* at least one digit; anything else raises ValueError. Value in tenths,
\* for texts with at most one digit after the point.
FloatOk(t) ==
    /\ Cardinality({ i \in DOMAIN t : t[i] = "." }) <= 1
    /\ \E i \in DOMAIN t : t[i] \in Digits

FloatTenths(t) ==
    LET dots == { i \in DOMAIN t : t[i] = "." }
    IN IF dots = {} THEN 10 * IntOf(t)
       ELSE LET d == CHOOSE i \in dots : TRUE
                frac == SubSeq(t, d + 1, Len(t))
            IN 10 * IntOf(SubSeq(t, 1, d - 1))
               + (IF frac = <<>> THEN 0 ELSE DigitVal(frac[1]))

\* int(group.replace(',', '')) of a text matched by [\d,]+ : raises
\* ValueError when no digit is left
IntOk(t) == StripCommas(t) # <<>>

----------------------------------------------------------------------------
(* Listing cards (the WebElements of a search page) and their extraction    *)

\* What the regular expressions of scrape_listings find in elem.text.
TextA ==
    [dollar |-> Some(<<"$", "4", ",", "0", "0", "0">>), bed |-> Some(2),
     studio |-> FALSE, bath |-> Some(<<"1">>), net |-> None,
     no_fee |-> TRUE, laundry |-> FALSE, sqft |-> None,
     excerpt |-> "2 beds 1 bath $4,000 no fee"]

TextB ==
    [dollar |-> Some(<<"$", "4", ",", "2", "0", "0">>), bed |-> Some(3),
     studio |-> FALSE, bath |-> Some(<<"1", ".", "5">>),
     net |-> Some(<<"3", ",", "9", "0", "0">>),
     no_fee |-> FALSE, laundry |-> TRUE, sqft |-> Some(<<"9", "0", "0">>),
     excerpt |-> "3 beds 1.5 baths $4,200 $3,900 net effective washer"]

\* "1 bed. Bath ..." : [\d.]+ before "bath" matches the lone point
TextBadBath ==
    [TextA EXCEPT !.bath = Some(<<".">>), !.excerpt = "1 bed. Bath $4,000"]

\* ", sq ft" : [\d,]+ before "sq ft" matches the lone comma
TextBadSqft ==
    [TextA EXCEPT !.sqft = Some(<<",">>), !.excerpt = "2 beds, sq ft n/a"]

UrlA == CHOOSE u \in URLS : u.hood = "crown-heights"
UrlB == CHOOSE u \in URLS : u.hood = "prospect-heights"
UrlC == CHOOSE u \in URLS : u.hood = "bed-stuy"

NoSuchElement == None

\* A card: stale (elem.text raises), the href of the link found by the first
\* selector, the hrefs of all its <a> (None, or a URL and whether it holds
\* 'streeteasy.com'), per address and price selector the text of the element
\* found, the findings in elem.text, and whether the innerHTML names laundry.
CardElem(link, anchors, text) ==
    [stale |-> FALSE, link |-> link, anchors |-> anchors,
     addr |-> <<NoSuchElement, Some(<<"9", " ", "E", "l", "m">>),
                NoSuchElement, NoSuchElement>>,
     price |-> <<NoSuchElement, NoSuchElement, NoSuchElement, NoSuchElement>>,
     text |-> text, html_laundry |-> FALSE]

ElemA == CardElem(Some(UrlA), <<>>, TextA)
ElemB ==
    [CardElem(Some(UrlA), <<>>, TextB) EXCEPT
        !.addr = <<NoSuchElement, NoSuchElement, NoSuchElement, NoSuchElement>>,
        !.price = <<Some(<<"$", "4", ",", "2", "0", "0">>), NoSuchElement,
                    NoSuchElement, NoSuchElement>>]
ElemC ==
    CardElem(None, <<None, Some([onsite |-> FALSE, url |-> UrlB]),
                     Some([onsite |-> TRUE, url |-> UrlC])>>, TextA)
ElemNoUrl == CardElem(None, <<Some([onsite |-> FALSE, url |-> UrlB])>>, TextA)
ElemStale == [CardElem(Some(UrlB), <<>>, TextA) EXCEPT !.stale = TRUE]
ElemBadBath == CardElem(Some(UrlB), <<>>, TextBadBath)
ElemBadSqft == CardElem(Some(UrlC), <<>>, TextBadSqft)

Elems == {ElemA, ElemB, ElemC, ElemNoUrl, ElemStale, ElemBadBath, ElemBadSqft}

\* the first of a set of positions, 0 when there is none
FirstWhere(hits) ==
    IF hits = {} THEN 0 ELSE CHOOSE i \in hits : \A j \in hits : i <= j

\* lines 228-237: the link of the first selector, else the first <a> whose
\* href holds 'streeteasy.com'
ElemUrl(elem) ==
    IF elem.link # None THEN elem.link
    ELSE LET hit == FirstWhere({ i \in DOMAIN elem.anchors :
                                   /\ elem.anchors[i] # None
                                   /\ Val(elem.anchors[i]).onsite })
         IN IF hit = 0 THEN None ELSE Some(Val(elem.anchors[hit]).url)

\* str.strip(): the text without its leading and trailing blanks
RECURSIVE Strip(_)
Strip(t) ==
    IF t = <<>> THEN t
    ELSE IF Head(t) = " " THEN Strip(Tail(t))
    ELSE IF t[Len(t)] = " " THEN Strip(SubSeq(t, 1, Len(t) - 1))
    ELSE t

\* lines 251-257: the stripped text of the first address selector that finds
\* an element; the loop ends there
ElemAddress(elem) ==
    LET hit == FirstWhere({ i \in DOMAIN elem.addr :
                              elem.addr[i] # NoSuchElement })
    IN IF hit = 0 THEN None ELSE Some(Strip(Val(elem.addr[hit])))

\* lines 266-278: parse_price of the first price selector that finds an
\* element; when that gives no price or 0, parse_price of the \$[\d,]+ match
ElemPrice(elem) ==
    LET hit == FirstWhere({ i \in DOMAIN elem.price :
                              elem.price[i] # NoSuchElement })
        price == IF hit = 0 THEN None ELSE parse_price(Val(elem.price[hit]))
    IN IF ~Truthy(price) /\ elem.text.dollar # None
       THEN parse_price(Val(elem.text.dollar))
       ELSE price

\* parse_beds_baths: beds
ElemBeds(text) ==
    IF text.bed # None THEN text.bed
    ELSE IF text.studio THEN Some(0) ELSE None

\* the statements of the try body of one card that can raise
ElemRaises(elem) ==
    \/ elem.stale
    \/ /\ ElemUrl(elem) # None
       /\ \/ elem.text.bath # None /\ ~FloatOk(Val(elem.text.bath))
          \/ elem.text.sqft # None /\ ~IntOk(Val(elem.text.sqft))

\* the listing dict appended at line 313
ElemListing(elem) ==
    LET url == Val(ElemUrl(elem))
        text == elem.text
        price == ElemPrice(elem)
    IN [id |-> generate_listing_id(url), url |-> url,
        address |-> ElemAddress(elem),
        neighborhood |-> Neighborhood(url),
        price |-> price,
        net_price |-> IF text.net # None THEN parse_price(Val(text.net))
                      ELSE price,
        beds |-> ElemBeds(text),
        baths |-> IF text.bath # None THEN Some(FloatTenths(Val(text.bath)))
                  ELSE None,
        sqft |-> IF text.sqft # None
                 THEN Some(IntOf(StripCommas(Val(text.sqft)))) ELSE None,
        has_laundry |-> text.laundry \/ elem.html_laundry,
        is_no_fee |-> text.no_fee,
        raw_text |-> text.excerpt]

RECURSIVE ScrapeLoop(_, _)

\* slip: the try statement is around the loop, an exception ends the loop
OnElemException_ends_loop(listing_elements, listings) == listings

\* except Exception as e: print(...); continue
OnElemException(listing_elements, listings) ==
    ScrapeLoop(Tail(listing_elements), listings)

\* for elem in listing_elements: the listings appended when the loop ends
ScrapeLoop(listing_elements, listings) ==
    IF listing_elements = <<>> THEN listings
    ELSE LET elem == Head(listing_elements)
         IN IF ElemRaises(elem)
            THEN OnElemException(listing_elements, listings)
            ELSE IF ElemUrl(elem) = None
            THEN ScrapeLoop(Tail(listing_elements), listings)
            ELSE ScrapeLoop(Tail(listing_elements),
                            Append(listings, ElemListing(elem)))

\* A page: whether driver.get raises, the cards found, whether
\* save_screenshot raises. The outer except catches both; the result says
\* whether an exception leaves scrape_listings.
scrape_listings(page) ==
    IF page.get_raises
    THEN [listings |-> <<>>, raised |-> FALSE]
    ELSE LET listings == ScrapeLoop(page.elems, <<>>)
         IN IF page.screenshot_raises
            THEN [listings |-> listings, raised |-> FALSE]
            ELSE [listings |-> listings, raised |-> FALSE]

----------------------------------------------------------------------------
(* Criteria filter                                                         *)

\* SEARCH_CONFIG; min_baths in tenths
SEARCH_CONFIG ==
    [min_beds |-> 2, max_beds |-> 4, min_baths |-> 10, max_price |-> 4500]

\* another configuration filter_listings can be called with
StudioConfig ==
    [min_beds |-> 0, max_beds |-> 1, min_baths |-> 15, max_price |-> 4000]

Configs == {SEARCH_CONFIG, StudioConfig}

\* slip: a missing beds or baths is read as 0
Keeps_absent_as_zero(listing, config) ==
    LET price == PyOr(listing.net_price, listing.price)
        beds == IF listing.beds = None THEN 0 ELSE Val(listing.beds)
        baths == IF listing.baths = None THEN 0 ELSE Val(listing.baths)
    IN /\ ~(Truthy(price) /\ Val(price) > config.max_price)
       /\ ~(beds < config.min_beds)
       /\ ~(beds > config.max_beds)
       /\ ~(baths < config.min_baths)

\* the body of the loop of filter_listings: TRUE when no continue is taken
Keeps(listing, config) ==
    LET price == PyOr(listing.net_price, listing.price)
        beds == listing.beds
        baths == listing.baths
    IN /\ ~(Truthy(price) /\ Val(price) > config.max_price)
       /\ beds # None => /\ ~(Val(beds) < config.min_beds)
                         /\ ~(Val(beds) > config.max_beds)
       /\ ~(baths # None /\ Val(baths) < config.min_baths)

RECURSIVE filter_listings(_, _)
filter_listings(listings, config) ==
    IF listings = <<>> THEN <<>>
    ELSE LET listing == Head(listings)
             rest == filter_listings(Tail(listings), config)
         IN IF Keeps(listing, config) THEN <<listing>> \o rest ELSE rest

----------------------------------------------------------------------------
(* Deduplication by id (main)                                              *)

\* slip: a listing is dropped only when the same dict was seen
RECURSIVE DedupeLoop_by_value(_, _, _)
DedupeLoop_by_value(listings_in, seen_ids, unique_listings) ==
    IF listings_in = <<>> THEN unique_listings
    ELSE LET listing == Head(listings_in)
         IN IF listing \notin seen_ids
            THEN DedupeLoop_by_value(Tail(listings_in), seen_ids \cup {listing},
                                     Append(unique_listings, listing))
            ELSE DedupeLoop_by_value(Tail(listings_in), seen_ids,
                                     unique_listings)

RECURSIVE DedupeLoop(_, _, _)
DedupeLoop(listings_in, seen_ids, unique_listings) ==
    IF listings_in = <<>> THEN unique_listings
    ELSE LET listing == Head(listings_in)
         IN IF listing.id \notin seen_ids
            THEN DedupeLoop(Tail(listings_in), seen_ids \cup {listing.id},
                            Append(unique_listings, listing))
            ELSE DedupeLoop(Tail(listings_in), seen_ids, unique_listings)

Dedupe(listings_in) == DedupeLoop(listings_in, {}, <<>>)

----------------------------------------------------------------------------
(* Runs of main. Each run is one process; the runs share the database file. *)

Runs == {1, 2}

\* len(BASE_URLS)
NumBaseUrls == 3

\* "$5,000", above max_price
TextPricey ==
    [TextA EXCEPT !.dollar = Some(<<"$", "5", ",", "0", "0", "0">>),
                  !.excerpt = "2 beds 1 bath $5,000"]

ElemPricey == CardElem(Some(UrlC), <<>>, TextPricey)

\* what a search page can hold when a run fetches it
RunPages ==
    { [get_raises |-> TRUE, elems |-> <<>>, screenshot_raises |-> FALSE],
      [get_raises |-> FALSE, elems |-> <<ElemStale, ElemPricey, ElemA>>,
       screenshot_raises |-> FALSE],
      [get_raises |-> FALSE, elems |-> <<ElemB, ElemC>>,
       screenshot_raises |-> TRUE] }

InitRuns ==
    /\ pc = [r \in Runs |-> "init_db"]
    /\ conn = [r \in Runs |-> "none"]
    /\ driver = [r \in Runs |-> "none"]
    /\ url_i = [r \in Runs |-> 0]
    /\ all_listings = [r \in Runs |-> <<>>]
    /\ filtered = [r \in Runs |-> <<>>]
    /\ new_listings = [r \in Runs |-> <<>>]
    /\ alerted = [r \in Runs |-> None]
    /\ raising = [r \in Runs |-> FALSE]
    /\ began_after = [r \in Runs |-> {}]

\* the runs whose main has returned or has ended with an exception
Ended == { q \in Runs : pc[q] \in {"done", "aborted"} }

\* conn = init_db()
InitDb(r) ==
    /\ pc[r] = "init_db"
    /\ began_after' = [began_after EXCEPT ![r] = Ended]
    /\ conn' = [conn EXCEPT ![r] = "open"]
    /\ pc' = [pc EXCEPT ![r] = "get_driver"]
    /\ UNCHANGED <<storeVars, call, driver, url_i, all_listings, filtered,
                   new_listings, alerted, raising>>

\* sqlite3.connect raises: main ends with the exception, nothing acquired
InitDbRaises(r) ==
    /\ pc[r] = "init_db"
    /\ began_after' = [began_after EXCEPT ![r] = Ended]
    /\ pc' = [pc EXCEPT ![r] = "aborted"]
    /\ UNCHANGED <<storeVars, call, conn, driver, url_i, all_listings,
                   filtered, new_listings, alerted, raising>>

\* driver = get_driver()
GetDriver(r) ==
    /\ pc[r] = "get_driver"
    /\ driver' = [driver EXCEPT ![r] = "open"]
    /\ pc' = [pc EXCEPT ![r] = "scrape"]
    /\ UNCHANGED <<storeVars, call, began_after, conn, url_i, all_listings, filtered,
                   new_listings, alerted, raising>>

\* get_driver raises before the try statement of main is entered: main ends
\* with the exception and runs neither finally clause statement
GetDriverRaises(r) ==
    /\ pc[r] = "get_driver"
    /\ pc' = [pc EXCEPT ![r] = "aborted"]
    /\ UNCHANGED <<storeVars, call, began_after, conn, driver, url_i, all_listings,
                   filtered, new_listings, alerted, raising>>

\* one round of for url in BASE_URLS
Scrape(r) ==
    /\ pc[r] = "scrape"
    /\ url_i[r] < NumBaseUrls
    /\ \E page \in RunPages :
           all_listings' = [all_listings EXCEPT
                               ![r] = @ \o scrape_listings(page).listings]
    /\ url_i' = [url_i EXCEPT ![r] = @ + 1]
    /\ pc' = [pc EXCEPT ![r] = IF url_i[r] + 1 = NumBaseUrls
                               THEN "filter" ELSE "scrape"]
    /\ UNCHANGED <<storeVars, call, began_after, conn, driver, filtered, new_listings,
                   alerted, raising>>

\* lines 532-544: remove duplicates by id, then filter by criteria
DedupeAndFilter(r) ==
    /\ pc[r] = "filter"
    /\ filtered' = [filtered EXCEPT
                       ![r] = filter_listings(Dedupe(all_listings[r]),
                                              SEARCH_CONFIG)]
    /\ pc' = [pc EXCEPT ![r] = "get_new"]
    /\ UNCHANGED <<storeVars, call, began_after, conn, driver, url_i, all_listings,
                   new_listings, alerted, raising>>

\* new_listings = get_new_listings(conn, filtered)
FindNew(r) ==
    /\ pc[r] = "get_new"
    /\ new_listings' = [new_listings EXCEPT
                           ![r] = get_new_listings(store, filtered[r])]
    /\ pc' = [pc EXCEPT ![r] = "save"]
    /\ UNCHANGED <<storeVars, call, began_after, conn, driver, url_i, all_listings,
                   filtered, alerted, raising>>

\* save_listings(conn, filtered): the rows are visible to the other run at
\* conn.commit()
Save(r) ==
    /\ pc[r] = "save"
    /\ \E now \in clock..MaxTime :
           /\ clock' = now
           /\ store' = save_listings(store, filtered[r], now)
           /\ firstSaved' = [i \in IDS |->
                  IF i \in IdsOf(filtered[r]) /\ firstSaved[i] = None
                  THEN Some(now) ELSE firstSaved[i]]
           /\ lastSaved' = [i \in IDS |->
                  IF i \in IdsOf(filtered[r]) THEN Some(now) ELSE lastSaved[i]]
    /\ pc' = [pc EXCEPT ![r] = "alert"]
    /\ UNCHANGED <<call, began_after, conn, driver, url_i, all_listings, filtered,
                   new_listings, alerted, raising>>

\* a statement of get_new_listings or save_listings raises (storage I/O):
\* nothing is committed, control goes to the finally clause
StoreRaises(r) ==
    /\ pc[r] \in {"get_new", "save"}
    /\ raising' = [raising EXCEPT ![r] = TRUE]
    /\ pc' = [pc EXCEPT ![r] = "finally"]
    /\ UNCHANGED <<storeVars, call, began_after, conn, driver, url_i, all_listings,
                   filtered, new_listings, alerted>>

\* if new_listings: send_email_alert(new_listings, len(all_listings))
Alert(r) ==
    /\ pc[r] = "alert"
    /\ alerted' = [alerted EXCEPT
                      ![r] = IF new_listings[r] # <<>>
                             THEN Some(new_listings[r]) ELSE @]
    /\ pc' = [pc EXCEPT ![r] = "finally"]
    /\ UNCHANGED <<storeVars, call, began_after, conn, driver, url_i, all_listings,
                   filtered, new_listings, raising>>

\* finally: driver.quit(); conn.close()
Finally(r) ==
    /\ pc[r] = "finally"
    /\ driver' = [driver EXCEPT ![r] = "closed"]
    /\ conn' = [conn EXCEPT ![r] = "closed"]
    /\ pc' = [pc EXCEPT ![r] = IF raising[r] THEN "aborted" ELSE "done"]
    /\ UNCHANGED <<storeVars, call, began_after, url_i, all_listings, filtered,
                   new_listings, alerted, raising>>

\* finally: driver.quit() raises, conn.close() is not reached
FinallyQuitRaises(r) ==
    /\ pc[r] = "finally"
    /\ raising' = [raising EXCEPT ![r] = TRUE]
    /\ pc' = [pc EXCEPT ![r] = "aborted"]
    /\ UNCHANGED <<storeVars, call, began_after, conn, driver, url_i, all_listings,
                   filtered, new_listings, alerted>>

InitRun ==
    /\ store = {}
    /\ clock = 0
    /\ firstSaved = [i \in IDS |-> None]
    /\ lastSaved = [i \in IDS |-> None]
    /\ call = NoCall
    /\ InitRuns

NextRun ==
    \E r \in Runs :
        \/ InitDb(r)
        \/ InitDbRaises(r)
        \/ GetDriver(r)
        \/ GetDriverRaises(r)
        \/ Scrape(r)
        \/ DedupeAndFilter(r)
        \/ FindNew(r)
        \/ Save(r)
        \/ StoreRaises(r)
        \/ Alert(r)
        \/ Finally(r)
        \/ FinallyQuitRaises(r)

SpecRun == InitRun /\ [][NextRun]_vars

----------------------------------------------------------------------------
(* Store operations called on their own                                    *)

InitStore ==
    /\ store = {}
    /\ clock = 0
    /\ firstSaved = [i \in IDS |-> None]
    /\ lastSaved = [i \in IDS |-> None]
    /\ call = NoCall
    /\ InitRuns

GetNewListings ==
    \E batch \in Batches :
        /\ call = NoCall
        /\ call' = [op |-> "get_new_listings", state |-> "returned",
                    arg |-> batch, now |-> clock,
                    ret |-> get_new_listings(store, batch)]
        /\ UNCHANGED <<storeVars, runVars>>

SaveListings ==
    \E batch \in Batches, now \in clock..MaxTime :
        /\ call = NoCall
        /\ clock' = now
        /\ store' = save_listings(store, batch, now)
        /\ firstSaved' = [i \in IDS |->
               IF i \in IdsOf(batch) /\ firstSaved[i] = None
               THEN Some(now) ELSE firstSaved[i]]
        /\ lastSaved' = [i \in IDS |->
               IF i \in IdsOf(batch) THEN Some(now) ELSE lastSaved[i]]
        /\ call' = [op |-> "save_listings", state |-> "returned",
                    arg |-> batch, now |-> now, ret |-> <<>>]
        /\ UNCHANGED runVars

\* the caller is done with the arguments and the result of the call
Return ==
    /\ call # NoCall
    /\ call' = NoCall
    /\ UNCHANGED <<storeVars, runVars>>

NextStore == GetNewListings \/ SaveListings \/ Return

SpecStore == InitStore /\ [][NextStore]_vars

----------------------------------------------------------------------------
(* Properties of the store                                                 *)

NotStored(rows, listing) == \A r \in rows : r.id # listing.id

\* C1: get_new_listings returns exactly the listings of the batch whose id
\* has no row in the table, in batch order, and leaves the table as it was.
C1_FindNewExact ==
    [][call'.op = "get_new_listings" =>
          /\ call'.ret = SelectSeq(call'.arg, LAMBDA l : NotStored(store, l))
          /\ store' = store]_vars

\* a call whose batch holds a stored id, then a new id: the second is returned
C1_Witness ==
    /\ call.op = "get_new_listings"
    /\ Len(call.arg) = 2
    /\ call.arg[1].id \in StoredIds(store)
    /\ call.ret = <<call.arg[2]>>

FirstSeenIsFirstSave ==
    \A r \in store : /\ firstSaved[r.id] = Some(r.first_seen)
                     /\ lastSaved[r.id] = Some(r.last_seen)

FirstSeenKept ==
    \A r \in store : \E r2 \in store' :
        r2.id = r.id /\ r2.first_seen = r.first_seen

\* C2: first_seen of every row is the time of the save_listings call that
\* first held its id and never changes; last_seen is the time of the latest
\* save_listings call whose batch held the id.
C2_SeenTimes == [](FirstSeenIsFirstSave) /\ [][FirstSeenKept]_vars

\* a row saved once and saved again at a later time
C2_Witness ==
    /\ call.op = "save_listings"
    /\ \E r \in store : /\ r.id \in IdsOf(call.arg)
                         /\ r.first_seen < r.last_seen
                         /\ r.last_seen = call.now

OnlySeenAndPrices(r, r2) ==
    r2 = [r EXCEPT !.last_seen = r2.last_seen,
                   !.price = r2.price,
                   !.net_price = r2.net_price]

\* C3: save_listings changes only last_seen, price and net_price of a row
\* whose id it meets again, and changes no row whose id is not in the batch.
C3_ConflictFrame ==
    [][call'.op = "save_listings" =>
          \A r \in store : \E r2 \in store' :
              /\ r2.id = r.id
              /\ r.id \notin IdsOf(call'.arg) => r2 = r
              /\ r.id \in IdsOf(call'.arg) => OnlySeenAndPrices(r, r2)]_vars

\* a stored row met again by a listing with another url, address and price:
\* the row has the new price and keeps its url and address
C3_Witness ==
    /\ call.op = "save_listings"
    /\ \E r \in store : \E i \in DOMAIN call.arg :
           /\ call.arg[i].id = r.id
           /\ r.first_seen < r.last_seen
           /\ r.price = call.arg[i].price
           /\ r.url # Some(call.arg[i].url)
           /\ r.address # call.arg[i].address

OneRowPerId == \A r1, r2 \in store : r1.id = r2.id => r1 = r2

SaveAddsBatchIds ==
    call'.op = "save_listings" =>
        /\ StoredIds(store') = StoredIds(store) \cup IdsOf(call'.arg)
        /\ Cardinality(store') =
               Cardinality(store) + Cardinality(IdsOf(call'.arg) \ StoredIds(store))
        /\ \A r2 \in store' :
               r2.id \notin StoredIds(store) =>
                   r2.first_seen = call'.now /\ r2.last_seen = call'.now

\* C4: the table holds one row per id; save_listings makes its id set the
\* union of the old id set and the ids of the batch, and every id that was
\* absent gets a row with first_seen = last_seen = the time of the call.
C4_OneRowPerId == [](OneRowPerId) /\ [][SaveAddsBatchIds]_vars

\* a batch of one stored id and one new id has been saved: two rows
C4_Witness ==
    /\ call.op = "save_listings"
    /\ Cardinality(IdsOf(call.arg)) = 2
    /\ Cardinality(store) = 2
    /\ \E r \in store : r.first_seen < call.now /\ r.last_seen = call.now
    /\ \E r \in store : r.first_seen = call.now /\ r.last_seen = call.now

----------------------------------------------------------------------------
(* filter_listings called on its own                                       *)

FilterPrices == {None, Some(0), Some(4500), Some(4501)}
FilterBeds == {None, Some(0), Some(1), Some(2), Some(4), Some(5)}
FilterBaths == {None, Some(0), Some(5), Some(10), Some(15)}

FilterUrl == CHOOSE u \in URLS : u.hood = "crown-heights"

FilterListings ==
    { [MkListing(FilterUrl, CardA) EXCEPT
           !.price = p, !.net_price = n, !.beds = b, !.baths = t]
      : p \in FilterPrices, n \in FilterPrices, b \in FilterBeds,
        t \in FilterBaths }

\* a listing alone, and a listing before or after one of two fixed listings
FilterBatches ==
    { <<l>> : l \in FilterListings }
    \cup { <<l, MkListing(FilterUrl, c)>> : l \in FilterListings, c \in Cards }
    \cup { <<MkListing(FilterUrl, c), l>> : l \in FilterListings, c \in Cards }

InitIdle ==
    /\ store = {}
    /\ clock = 0
    /\ firstSaved = [i \in IDS |-> None]
    /\ lastSaved = [i \in IDS |-> None]
    /\ InitRuns

InitFilter ==
    /\ InitIdle
    /\ \E listings \in FilterBatches, config \in Configs :
           call = Called("filter_listings",
                         [listings |-> listings, config |-> config])

FilterListingsCall ==
    /\ call.op = "filter_listings"
    /\ call.state = "called"
    /\ call' = Returned(call,
                        filter_listings(call.arg.listings, call.arg.config))
    /\ UNCHANGED <<storeVars, runVars>>

NextFilter == FilterListingsCall

SpecFilter == InitFilter /\ [][NextFilter]_vars

\* no present field of the listing has a value outside the range of config
NothingOutOfRange(l, config) ==
    /\ l.net_price # None => Val(l.net_price) <= config.max_price
    /\ l.price # None => Val(l.price) <= config.max_price
    /\ l.beds # None => /\ Val(l.beds) >= config.min_beds
                        /\ Val(l.beds) <= config.max_beds
    /\ l.baths # None => Val(l.baths) >= config.min_baths

EffectivePrice(l) == IF l.net_price # None THEN l.net_price ELSE l.price

KeepPerClaim(l, config) ==
    LET eff == EffectivePrice(l)
    IN /\ ~(eff # None /\ Val(eff) > config.max_price)
       /\ ~(l.beds # None /\ (Val(l.beds) < config.min_beds
                               \/ Val(l.beds) > config.max_beds))
       /\ ~(l.baths # None /\ Val(l.baths) < config.min_baths)

\* C6: filter_listings keeps a listing if and only if none of these holds:
\* the effective price (net_price if present, else price) is present and
\* above max_price; beds is present and outside [min_beds, max_beds]; baths
\* is present and below min_baths; for every present value, 0 included.
C6_KeepIff ==
    Done("filter_listings") =>
        call.ret = SelectSeq(call.arg.listings,
                             LAMBDA l : KeepPerClaim(l, call.arg.config))

----------------------------------------------------------------------------
(* The deduplication called on its own                                     *)

InitDedupe ==
    /\ InitIdle
    /\ \E listings_in \in SeqsUpTo(StoreListings, MaxAll) :
           call = Called("dedupe", listings_in)

DedupeCall ==
    /\ call.op = "dedupe"
    /\ call.state = "called"
    /\ call' = Returned(call, Dedupe(call.arg))
    /\ UNCHANGED <<storeVars, runVars>>

NextDedupe == DedupeCall

SpecDedupe == InitDedupe /\ [][NextDedupe]_vars

\* positions of xs that hold the first listing with their id
FirstOccurrences(xs) ==
    { i \in DOMAIN xs : \A j \in 1..(i - 1) : xs[j].id # xs[i].id }

\* f maps the positions of ys, in order, onto the positions in P of xs
IsOrderedPick(xs, P, ys) ==
    /\ Len(ys) = Cardinality(P)
    /\ \A i \in P : ys[Cardinality({ j \in P : j <= i })] = xs[i]

\* C7: the deduplication keeps, for each id of the input, exactly its first
\* occurrence, in input order, and applied to its own output changes nothing.
C7_FirstOccurrenceWins ==
    Done("dedupe") =>
        /\ IsOrderedPick(call.arg, FirstOccurrences(call.arg), call.ret)
        /\ Dedupe(call.ret) = call.ret

\* two listings with the same id and different contents, then another id:
\* the first and the third are kept
C7_Witness ==
    /\ Done("dedupe")
    /\ Len(call.arg) = 3
    /\ call.arg[1].id = call.arg[2].id
    /\ call.arg[1] # call.arg[2]
    /\ call.ret = <<call.arg[1], call.arg[3]>>

----------------------------------------------------------------------------
(* scrape_listings called on its own                                       *)

Pages ==
    { [get_raises |-> g, elems |-> e, screenshot_raises |-> sh]
      : g \in BOOLEAN, e \in SeqsUpTo(Elems, MaxElems), sh \in BOOLEAN }

InitScrape ==
    /\ InitIdle
    /\ \E page \in Pages : call = Called("scrape_listings", page)

ScrapeListingsCall ==
    /\ call.op = "scrape_listings"
    /\ call.state = "called"
    /\ call' = Returned(call, scrape_listings(call.arg))
    /\ UNCHANGED <<storeVars, runVars>>

NextScrape == ScrapeListingsCall

SpecScrape == InitScrape /\ [][NextScrape]_vars

\* the card has a URL and none of its statements raises
Extractable(elem) == ElemUrl(elem) # None /\ ~ElemRaises(elem)

\* C10: an exception raised while extracting one card is isolated to it: the
\* card yields no listing, every other card of the page that has a URL yields
\* its listing, in order, and no exception leaves scrape_listings.
C10_ExceptionIsolated ==
    (Done("scrape_listings") /\ ~call.arg.get_raises) =>
        LET good == SelectSeq(call.arg.elems, Extractable)
        IN /\ ~call.ret.raised
           /\ Len(call.ret.listings) = Len(good)
           /\ \A i \in DOMAIN good :
                  call.ret.listings[i] = ElemListing(good[i])

\* a page whose first card raises and whose second card yields its listing
C10_Witness ==
    /\ Done("scrape_listings")
    /\ ~call.arg.get_raises
    /\ Len(call.arg.elems) = 2
    /\ ElemRaises(call.arg.elems[1])
    /\ ElemUrl(call.arg.elems[2]) # None
    /\ Len(call.ret.listings) = 1
    /\ call.ret.listings[1].url = Val(ElemUrl(call.arg.elems[2]))

----------------------------------------------------------------------------
(* Properties of runs                                                      *)

AlertedIds(r) == IF alerted[r] = None THEN {} ELSE IdsOf(Val(alerted[r]))

\* C8: the read-then-write of a run (get_new_listings, then save_listings)
\* is not interleaved with that of an overlapping run, so no listing id is
\* new for both of two runs.
C8_NoIdNewInBothRuns ==
    \A r1, r2 \in Runs :
        r1 # r2 => AlertedIds(r1) \cap AlertedIds(r2) = {}

Exited(r) == pc[r] \in {"done", "aborted"}

\* C9: on every exit path of a run, the connection and the driver the run
\* has acquired are released.
C9_ReleasedOnExit ==
    \A r \in Runs : Exited(r) => conn[r] # "open" /\ driver[r] # "open"

----------------------------------------------------------------------------
(* Extraction of one card: the selector lists                              *)

\* len(address_selectors), len(price_selectors)
NumSelectors == 4

\* what one address selector can give: no element, or the text of the element
AddrFinds ==
    { NoSuchElement, Some(<<>>), Some(<<" ">>),
      Some(<<"9", " ", "E", "l", "m">>), Some(<<"7", " ", "O", "a", "k", " ">>) }

\* what one price selector can give: no element, or the text of the element
PriceFinds ==
    { NoSuchElement, Some(<<>>), Some(<<"C", "a", "l", "l">>),
      Some(<<"$", "0">>), Some(<<"$", "4", ",", "2", "0", "0">>) }

\* cards that differ in what the address selectors find, and cards that
\* differ in what the price selectors and the \$[\d,]+ scan of the text find
ExtractCards ==
    { [ElemA EXCEPT !.addr = a] : a \in [1..NumSelectors -> AddrFinds] }
    \cup { [ElemA EXCEPT !.price = q, !.text = [TextA EXCEPT !.dollar = d]]
           : q \in [1..NumSelectors -> PriceFinds],
             d \in {None, TextA.dollar} }

InitExtract ==
    /\ InitIdle
    /\ \E card \in ExtractCards :
           call = Called("scrape_listings",
                         [get_raises |-> FALSE, elems |-> <<card>>,
                          screenshot_raises |-> FALSE])

SpecExtract == InitExtract /\ [][NextScrape]_vars

\* the value of the first strategy, in priority order, whose value is not
\* empty; None when no strategy has one
FirstNonEmpty(values) ==
    LET hit == FirstWhere({ i \in DOMAIN values : values[i] # None })
    IN IF hit = 0 THEN None ELSE values[hit]

\* per address selector: its stripped text when that is not empty
AddrValues(elem) ==
    [i \in DOMAIN elem.addr |->
        IF elem.addr[i] # NoSuchElement /\ Strip(Val(elem.addr[i])) # <<>>
        THEN Some(Strip(Val(elem.addr[i]))) ELSE None]

\* per price selector: the price parsed from its text, when there is one
PriceValues(elem) ==
    [i \in DOMAIN elem.price |->
        IF elem.price[i] # NoSuchElement
        THEN parse_price(Val(elem.price[i])) ELSE None]

\* the currency-pattern scan of the visible text
ScanPrice(elem) ==
    IF elem.text.dollar # None THEN parse_price(Val(elem.text.dollar))
    ELSE None

\* C11: address and price are the value of the first selector, in priority
\* order, that yields a non-empty value (a selector that finds an element with
\* an empty or unparsable text does not stop the later ones); the currency
\* scan of the text gives the price exactly when no price selector yields one.
C11_FirstNonEmptyStrategy ==
    Done("scrape_listings") =>
        \A k \in DOMAIN call.ret.listings :
            LET elem == call.arg.elems[k]
                listing == call.ret.listings[k]
                structural == FirstNonEmpty(PriceValues(elem))
                address == IF listing.address = Some(<<>>) THEN None
                           ELSE listing.address
            IN /\ address = FirstNonEmpty(AddrValues(elem))
               /\ listing.price = IF structural # None THEN structural
                                  ELSE ScanPrice(elem)

NonOverlapping(r1, r2) == r1 \in began_after[r2] \/ r2 \in began_after[r1]

\* C12: send_email_alert is called only after save_listings has committed,
\* so every id handed to it has a row in the table from then on, at the end
\* of the run included; and of two runs that do not overlap, no id is handed
\* to send_email_alert by both.
C12_AlertedOnce ==
    /\ \A r \in Runs : AlertedIds(r) \subseteq StoredIds(store)
    /\ \A r1, r2 \in Runs :
           (r1 # r2 /\ NonOverlapping(r1, r2)) =>
               AlertedIds(r1) \cap AlertedIds(r2) = {}

\* two completed runs, the second begun after the first had ended: the second
\* scraped an id the first had alerted, and alerted another id only
C12_Witness ==
    \E r1, r2 \in Runs :
        /\ pc[r1] = "done" /\ pc[r2] = "done"
        /\ r1 \in began_after[r2]
        /\ AlertedIds(r1) \cap IdsOf(filtered[r2]) # {}
        /\ AlertedIds(r2) # {}
        /\ AlertedIds(r1) \cap AlertedIds(r2) = {}

====
